---- MODULE Spec2Model ----
(***************************************************************************)
(* The chunk compiler of src/compiler.rs: Compiler::res_next, its nested   *)
(* resolver merge_labels and the Iterator that drives it.                  *)
(*                                                                         *)
(* One request of the caller (Iterator::next -> res_next) is a run of      *)
(* steps: the entry of res_next (drain `extra` or open a fresh chunk),     *)
(* then one step per statement pulled from `inner`, until an arm returns.  *)
(* A panic aborts the process: pc = "panic" is final.                      *)
(***************************************************************************)
EXTENDS Integers, Sequences, FiniteSets, TLC

VARIABLES
    extra,          \* Compiler.extra: Vec<CompileData>
    next_label,     \* Compiler.next_label: Option<String>, <<>> is None
    next_attrs,     \* Compiler.next_attrs: Vec<Attribute>
    chunk,          \* res_next local: the LabeledChunk being accumulated
    labels,         \* res_next local: HashMap<ExprNode, usize>
    pending_exprs,  \* res_next local: Vec<LabelRef>
    pc,             \* "idle" between requests, "loop" inside res_next, "panic"
    srcDone,        \* inner.next() has returned None
    pulled,         \* history: the statements inner.next() has returned
    out,            \* history: the units returned to the caller, in order
    trace,          \* history: per emitted chunk, what merge_labels was given
    ended           \* history: a request has returned None

vars == <<extra, next_label, next_attrs, chunk, labels, pending_exprs, pc,
          srcDone, pulled, out, trace, ended>>

----------------------------------------------------------------------------
(* Bounds *)

MaxStmts == 3

----------------------------------------------------------------------------
(* Small helpers *)

Max(a, b) == IF a >= b THEN a ELSE b

RECURSIVE Pow(_, _)
Pow(b, n) == IF n = 0 THEN 1 ELSE b * Pow(b, n - 1)

Front(s) == SubSeq(s, 1, Len(s) - 1)
Last(s) == s[Len(s)]

Zeros(n) == [i \in 1..n |-> 0]

----------------------------------------------------------------------------
(* Expressions (expression.rs is a collaborator): leaves and one binary     *)
(* operator node whose children are leaves.                                 *)

Empty == [k |-> "Empty", v |-> 0]
Constant(c) == [k |-> "Constant", v |-> c]
Label(id) == [k |-> "Label", v |-> id]
LabelOffset(c) == [k |-> "LabelOffset", v |-> c]
Add(l, r) == [k |-> "Add", l |-> l, r |-> r]

Expr(root, size) == [root |-> root, size |-> size]

\* Expression::each: the leaves, left to right
Leaves(e) == IF e.root.k = "Add" THEN <<e.root.l, e.root.r>> ELSE <<e.root>>

\* the closure given to each_mut in merge_labels
SubstNode(n, lbls) == IF n \in DOMAIN lbls THEN LabelOffset(lbls[n]) ELSE n

\* Expression::each_mut with that closure
Subst(e, lbls) ==
    IF e.root.k = "Add"
    THEN [e EXCEPT !.root = Add(SubstNode(e.root.l, lbls), SubstNode(e.root.r, lbls))]
    ELSE [e EXCEPT !.root = SubstNode(e.root, lbls)]

\* Expression::reduce: constant folding
Reduce(e) ==
    IF e.root.k = "Add"
    THEN LET l == e.root.l
             r == e.root.r
         IN  IF l.k = "Constant" /\ r.k = "Constant"
             THEN [e EXCEPT !.root = Constant(l.v + r.v)]
             ELSE IF l.k = "Empty" THEN [e EXCEPT !.root = r]
             ELSE IF r.k = "Empty" THEN [e EXCEPT !.root = l]
             ELSE e
    ELSE e

\* SizeHint::and_then: a later, more specific hint narrows an earlier one
AndThen(a, b) == IF b = "Unspecified" THEN a ELSE b

\* operand bytes an addressing mode of this size occupies
Width(size) ==
    CASE size = "Byte" -> 1
      [] size = "Word" -> 2
      [] size = "Long" -> 3
      [] size = "RelByte" -> 1
      [] size = "RelWord" -> 2
      [] OTHER -> 0

----------------------------------------------------------------------------
(* Byte buffers *)

\* byteorder LittleEndian: the n low bytes of v, least significant first
LittleEndianBytes(v, n) == [i \in 1..n |-> (v \div Pow(256, i - 1)) % 256]

\* Cursor<&mut Vec<u8>>: seek(Start(off)) then write: overwrites, and grows
\* the vector (zero filled) when the write passes its end
CursorWrite(data, off, bs) ==
    LET n == Max(Len(data), off + Len(bs))
    IN  [i \in 1..n |-> IF i > off /\ i <= off + Len(bs) THEN bs[i - off]
                        ELSE IF i <= Len(data) THEN data[i] ELSE 0]

----------------------------------------------------------------------------
(* The resolver: merge_labels *)

\* RelDisp measured from the operand byte itself
RelDispFromOperand(c, offset) == c - offset

\* the displacement written for a resolved offset c by a fixup at `offset`
RelDisp(c, offset) == c - offset - 1

\* `c as u8`, `c as u16`, `c as u32`, `x as i8`, `x as i16`: the low bits
Truncate(c, bits) == c % Pow(2, bits)

\* ConstantBytes writing a Word most significant byte first
ConstantBytesBigEndian(size, c) ==
    CASE size = "Byte" -> <<Truncate(c, 8)>>
      [] size = "Word" -> <<Truncate(c, 16) \div 256, Truncate(c, 16) % 256>>
      [] size = "Long" -> LittleEndianBytes(Truncate(c, 32), 3)
      [] OTHER -> <<>>

\* the bytes merge_labels writes for a Constant(c) root of this size
ConstantBytes(size, c) ==
    CASE size = "Byte" -> LittleEndianBytes(Truncate(c, 8), 1)
      [] size = "Word" -> LittleEndianBytes(Truncate(c, 16), 2)
      [] size = "Long" -> LittleEndianBytes(Truncate(c, 32), 3)
      [] OTHER -> <<>>

\* the Constant arm panics on a relative or unknown size; write_u24 asserts
\* that its argument fits three bytes
ConstantPanics(size, c) ==
    \/ size \notin {"Byte", "Word", "Long"}
    \/ size = "Long" /\ Truncate(c, 32) >= Pow(2, 24)

\* the bytes merge_labels writes for a LabelOffset(c) root of a relative size
RelBytes(size, c, offset) ==
    IF size = "RelByte"
    THEN LittleEndianBytes(Truncate(RelDisp(c, offset), 8), 1)
    ELSE LittleEndianBytes(Truncate(RelDisp(c, offset), 16), 2)

\* the expression of a fixup after each_mut and reduce
Resolved(r, lbls) == Reduce(Subst(r.expr, lbls))

\* CarryForward putting the fixup in front of the ones carried before it
CarryInFront(linker, r, e) == <<[r EXCEPT !.expr = e]>> \o linker

\* a fixup merge_labels does not finish keeps its place in linker_exprs
CarryForward(linker, r, e) == Append(linker, [r EXCEPT !.expr = e])

\* DropEmpty treating an empty expression as the constant 0
PatchEmpty(st, r) == [st EXCEPT !.data = CursorWrite(st.data, r.offset, <<0>>)]

\* ExprNode::Empty => {}: the fixup is finished, nothing is written
DropEmpty(st, r) == st

\* one iteration of the for loop; st = [data, linker, panic]
MergeOne(st, r, lbls) ==
    LET e == Resolved(r, lbls)
        root == e.root
    IN  IF st.panic THEN st
        ELSE CASE root.k = "Empty" -> DropEmpty(st, r)
               [] root.k = "Constant" ->
                    IF ConstantPanics(e.size, root.v)
                    THEN [st EXCEPT !.panic = TRUE]
                    ELSE [st EXCEPT !.data =
                             CursorWrite(st.data, r.offset, ConstantBytes(e.size, root.v))]
               [] root.k = "LabelOffset" ->
                    IF e.size \in {"RelByte", "RelWord"}
                    THEN [st EXCEPT !.data =
                             CursorWrite(st.data, r.offset, RelBytes(e.size, root.v, r.offset))]
                    ELSE [st EXCEPT !.linker = CarryForward(st.linker, r, e)]
               [] OTHER -> [st EXCEPT !.linker = CarryForward(st.linker, r, e)]

\* the state of the for loop after the first n fixups
RECURSIVE MergeUpTo(_, _, _, _)
MergeUpTo(data, lbls, pend, n) ==
    IF n = 0 THEN [data |-> data, linker |-> <<>>, panic |-> FALSE]
    ELSE MergeOne(MergeUpTo(data, lbls, pend, n - 1), pend[n], lbls)

\* merge_labels: the chunk with patched data and the carried fixups
merge_labels(c, lbls, pend) ==
    LET st == MergeUpTo(c.data, lbls, pend, Len(pend))
    IN  [chunk |-> [c EXCEPT !.data = st.data, !.pending_exprs = st.linker],
         panic |-> st.panic]

----------------------------------------------------------------------------
(* Units and chunks *)

\* LabeledChunk::default()
DefaultChunk ==
    [data |-> <<>>, pending_exprs |-> <<>>, attrs |-> <<>>,
     diverging |-> FALSE, bank_hint |-> <<>>]

NoLabels == [n \in {} |-> 0]

\* FreshLabels as it would be were the table a field that outlives the call
KeptLabels(old) == old

\* let mut labels = HashMap::new(): every call of res_next starts a new table
FreshLabels(old) == NoLabels

ChunkUnit(label, c) == [u |-> "Chunk", label |-> label, chunk |-> c]
DefineUnit(label, e) == [u |-> "Define", label |-> label, expr |-> e]

Bank(n) == [a |-> "Bank", n |-> n]
OtherAttr == [a |-> "Other", n |-> 0]

\* the loop over the swapped-out attributes: the last Bank attribute wins
RECURSIVE BankHint(_, _)
BankHint(attrs, hint) ==
    IF attrs = <<>> THEN hint
    ELSE BankHint(Tail(attrs), IF Head(attrs).a = "Bank" THEN <<Head(attrs).n>> ELSE hint)

\* labels.insert(label, chunk.data.len())
Insert(lbls, node, off) ==
    [n \in DOMAIN lbls \cup {node} |-> IF n = node THEN off ELSE lbls[n]]

----------------------------------------------------------------------------
(* The statements the source may deliver.  Identities of local labels are   *)
(* the answers of the identity allocator (lls); 9 names a symbol that no    *)
(* local label defines.                                                     *)

DefineStmts ==
    {[t |-> "Define", label |-> l, expr |-> Expr(Constant(1), "Unspecified")] :
        l \in {"d1", "d2"}}

LabelStmts ==
    {[t |-> "Label", name |-> "A", attrs |-> <<OtherAttr>>],
     [t |-> "Label", name |-> "B", attrs |-> <<OtherAttr, Bank(2)>>]}

NegLabelStmts == {[t |-> "NegLabel", id |-> Label(1)]}
PosLabelStmts == {[t |-> "PosLabel", id |-> Label(2)]}
LocalLabelStmts == {[t |-> "LocalLabel", id |-> Label(3)]}

RawDataStmts ==
    {[t |-> "RawData", data |-> Zeros(127), pending_exprs |-> <<>>],
     [t |-> "RawData", data |-> <<0, 0>>,
      pending_exprs |-> << <<0, Expr(Label(9), "Word")>> >>],
     [t |-> "RawData", data |-> <<9, 0, 0>>,
      pending_exprs |-> << <<1, Expr(Constant(10768), "Word")>> >>],
     [t |-> "RawData", data |-> <<0>>,
      pending_exprs |-> << <<0, Expr(Constant(511), "Byte")>> >>],
     [t |-> "RawData", data |-> <<5>>,
      pending_exprs |-> << <<0, Expr(Empty, "Byte")>> >>],
     [t |-> "RawData", data |-> <<0>>,
      pending_exprs |-> << <<0, Expr(Constant(3), "RelByte")>> >>]}

Instr(op, hint, expr, psize, ok, div) ==
    [t |-> "Instruction", op |-> op, hint |-> hint, expr |-> expr,
     psize |-> psize, ok |-> ok, div |-> div]

InstructionStmts ==
    {Instr(128, "RelByte", Expr(Label(1), "Unspecified"), "Unspecified", TRUE, TRUE),
     Instr(130, "RelWord", Expr(Label(2), "Unspecified"), "Unspecified", TRUE, TRUE),
     Instr(173, "Word", Expr(Add(Label(9), Constant(1)), "Unspecified"), "Unspecified", TRUE, FALSE),
     Instr(169, "Word", Expr(Constant(5), "Unspecified"), "Byte", TRUE, FALSE),
     Instr(238, "Implicit", Expr(Label(9), "Word"), "Unspecified", TRUE, FALSE),
     Instr(76, "Word", Expr(Label(3), "Unspecified"), "Unspecified", TRUE, TRUE),
     Instr(34, "Long", Expr(Label(9), "Unspecified"), "Byte", FALSE, FALSE)}

ErrorStmts == {[t |-> "Error"]}

----------------------------------------------------------------------------
(* The pieces of res_next's arms *)

\* ExtraPop leaving the queue empty behind the unit it returns
ExtraPopAll(q) == [unit |-> Last(q), rest |-> <<>>]

\* self.extra.pop(): the unit returned and what stays queued
ExtraPop(q) == [unit |-> Last(q), rest |-> Front(q)]

\* SwappedName without the swap: the chunk takes the label just read
UnswappedName(pending, name) == name

\* after mem::swap, `name` holds the label that was pending
SwappedName(pending, name) == pending

\* after mem::swap, `attrs` holds the attributes that were pending
SwappedAttrs(pending, attrs) == pending

\* the chunk returned when the source is exhausted
EndChunk(c, attrs) == c

\* the chunk returned by the top-level Label arm
LabelChunk(c, attrs) ==
    [c EXCEPT !.bank_hint = BankHint(attrs, c.bank_hint), !.attrs = attrs]

\* NegLabelDiverging with the assignment that line 204 comments out
NegLabelClears(d) == FALSE

\* chunk.diverging after each statement kind
NegLabelDiverging(d) == d
PosLabelDiverging(d) == FALSE
LocalLabelDiverging(d) == FALSE
RawDataDiverging(d) == TRUE
InstructionDiverging(d, isDiverging) == IF isDiverging THEN TRUE ELSE d

\* RawDataRef asking for the same bank, as instruction operands do
RawDataRefSameBank(len, p) == [offset |-> len + p[1], expr |-> p[2], same_bank |-> TRUE]

\* LabelRef { offset: len+off, expr, same_bank: false }
RawDataRef(len, p) == [offset |-> len + p[1], expr |-> p[2], same_bank |-> FALSE]

\* pending_exprs.extend(p.into_iter().map(...))
RawDataRefs(len, ps) == [i \in 1..Len(ps) |-> RawDataRef(len, ps[i])]

\* chunk.data.write(&data)
WriteData(data, bs) == data \o bs

\* ConstOnly from the leaf scan alone, without the Implicit rule
ConstOnlyByLeaves(stmt) ==
    \A i \in 1..Len(Leaves(stmt.expr)) : Leaves(stmt.expr)[i].k \in {"Constant", "Empty"}

\* const_only after the leaf scan and the Implicit rule
ConstOnly(stmt) ==
    \/ \A i \in 1..Len(Leaves(stmt.expr)) : Leaves(stmt.expr)[i].k \in {"Constant", "Empty"}
    \/ stmt.hint = "Implicit"

\* s.and_then(arg.expr.size).and_then(size.0)
OperandSize(stmt) == AndThen(AndThen(stmt.hint, stmt.expr.size), stmt.psize)

\* InstructionRef taking the offset after the instruction has been written
InstructionRefAfterWrite(len, stmt) ==
    [offset |-> len + 1 + Width(OperandSize(stmt)),
     expr |-> [stmt.expr EXCEPT !.size = OperandSize(stmt)],
     same_bank |-> TRUE]

\* LabelRef { offset: chunk.data.len()+1, expr: new_expr, same_bank: true }
InstructionRef(len, stmt) ==
    [offset |-> len + 1, expr |-> [stmt.expr EXCEPT !.size = OperandSize(stmt)],
     same_bank |-> TRUE]

\* what the Instruction arm adds to pending_exprs
InstructionRefs(len, stmt) ==
    IF ConstOnly(stmt) THEN <<>> ELSE <<InstructionRef(len, stmt)>>

\* instr.write_to: the opcode, then the operand or its placeholder
InstructionBytes(stmt) ==
    LET w == Width(OperandSize(stmt))
    IN  <<stmt.op>> \o (IF stmt.expr.root.k = "Constant"
                        THEN LittleEndianBytes(stmt.expr.root.v, w)
                        ELSE Zeros(w))

----------------------------------------------------------------------------
(* Compiler::new *)

Init ==
    /\ extra = <<>>
    /\ next_label = <<"*root">>
    /\ next_attrs = <<>>
    /\ chunk = DefaultChunk
    /\ labels = NoLabels
    /\ pending_exprs = <<>>
    /\ pc = "idle"
    /\ srcDone = FALSE
    /\ pulled = <<>>
    /\ out = <<>>
    /\ trace = <<>>
    /\ ended = FALSE

----------------------------------------------------------------------------
(* Compiler::res_next, driven by Iterator::next *)

\* the locals of res_next are dropped when it returns
DropLocals ==
    /\ chunk' = DefaultChunk
    /\ labels' = FreshLabels(labels)
    /\ pending_exprs' = <<>>

\* a panic aborts the process where it stands
Panic ==
    /\ pc' = "panic"
    /\ UNCHANGED <<extra, next_label, next_attrs, chunk, labels, pending_exprs,
                   srcDone, out, trace, ended>>

\* what merge_labels is given when a chunk is finished
MergeInput == [labels |-> labels, queued |-> pending_exprs, pre |-> chunk.data]

\* if self.extra.len() > 0 { return Ok(self.extra.pop()) }
Drain ==
    /\ pc = "idle"
    /\ Len(extra) > 0
    /\ out' = Append(out, ExtraPop(extra).unit)
    /\ extra' = ExtraPop(extra).rest
    /\ UNCHANGED <<next_label, next_attrs, chunk, labels, pending_exprs, pc,
                   srcDone, pulled, trace, ended>>

\* a request with nothing queued: fresh chunk, labels, pending_exprs
Enter ==
    /\ pc = "idle"
    /\ Len(extra) = 0
    /\ chunk' = DefaultChunk
    /\ labels' = FreshLabels(labels)
    /\ pending_exprs' = <<>>
    /\ pc' = "loop"
    /\ UNCHANGED <<extra, next_label, next_attrs, srcDone, pulled, out, trace, ended>>

\* self.inner.next() may return a statement
CanPull == pc = "loop" /\ ~srcDone /\ Len(pulled) < MaxStmts

\* self.inner.next() returned None
EndOfStream ==
    /\ pc = "loop"
    /\ srcDone' = TRUE
    /\ UNCHANGED <<extra, next_attrs, pulled>>
    /\ IF next_label = <<>>
       THEN /\ pc' = "idle"
            /\ ended' = TRUE
            /\ DropLocals
            /\ UNCHANGED <<next_label, out, trace>>
       ELSE LET m == merge_labels(chunk, labels, pending_exprs)
            IN  IF m.panic
                THEN /\ pc' = "panic"
                     /\ UNCHANGED <<next_label, chunk, labels, pending_exprs, out,
                                    trace, ended>>
                ELSE /\ pc' = "idle"
                     /\ next_label' = <<>>
                     /\ out' = Append(out, ChunkUnit(next_label[1], EndChunk(m.chunk, next_attrs)))
                     /\ trace' = Append(trace, MergeInput)
                     /\ DropLocals
                     /\ UNCHANGED ended

\* Statement::Define
PullDefine ==
    /\ CanPull
    /\ \E stmt \in DefineStmts :
        /\ pulled' = Append(pulled, stmt)
        /\ extra' = Append(extra, DefineUnit(stmt.label, stmt.expr))
    /\ UNCHANGED <<next_label, next_attrs, chunk, labels, pending_exprs, pc,
                   srcDone, out, trace, ended>>

\* Label { name: Span::Ident(name), attrs }
PullLabel ==
    /\ CanPull
    /\ \E stmt \in LabelStmts :
        /\ pulled' = Append(pulled, stmt)
        /\ LET m == merge_labels(chunk, labels, pending_exprs)
           IN  IF m.panic
               THEN Panic
               ELSE /\ pc' = "idle"
                    /\ next_label' = <<stmt.name>>
                    /\ next_attrs' = stmt.attrs
                    /\ out' = Append(out,
                          ChunkUnit(SwappedName(next_label[1], stmt.name),
                                    LabelChunk(m.chunk, SwappedAttrs(next_attrs, stmt.attrs))))
                    /\ trace' = Append(trace, MergeInput)
                    /\ DropLocals
                    /\ UNCHANGED <<extra, srcDone, ended>>

\* Label { name: Span::NegLabel(c), .. }
PullNegLabel ==
    /\ CanPull
    /\ \E stmt \in NegLabelStmts :
        /\ pulled' = Append(pulled, stmt)
        /\ labels' = Insert(labels, stmt.id, Len(chunk.data))
    /\ chunk' = [chunk EXCEPT !.diverging = NegLabelDiverging(chunk.diverging)]
    /\ UNCHANGED <<extra, next_label, next_attrs, pending_exprs, pc, srcDone,
                   out, trace, ended>>

\* Label { name: Span::PosLabel(c), .. }
PullPosLabel ==
    /\ CanPull
    /\ \E stmt \in PosLabelStmts :
        /\ pulled' = Append(pulled, stmt)
        /\ labels' = Insert(labels, stmt.id, Len(chunk.data))
    /\ chunk' = [chunk EXCEPT !.diverging = PosLabelDiverging(chunk.diverging)]
    /\ UNCHANGED <<extra, next_label, next_attrs, pending_exprs, pc, srcDone,
                   out, trace, ended>>

\* LocalLabel { depth, name: Span::Ident(c) }
PullLocalLabel ==
    /\ CanPull
    /\ \E stmt \in LocalLabelStmts :
        /\ pulled' = Append(pulled, stmt)
        /\ labels' = Insert(labels, stmt.id, Len(chunk.data))
    /\ chunk' = [chunk EXCEPT !.diverging = LocalLabelDiverging(chunk.diverging)]
    /\ UNCHANGED <<extra, next_label, next_attrs, pending_exprs, pc, srcDone,
                   out, trace, ended>>

\* RawData { data, pending_exprs: p }
PullRawData ==
    /\ CanPull
    /\ \E stmt \in RawDataStmts :
        /\ pulled' = Append(pulled, stmt)
        /\ pending_exprs' = pending_exprs \o RawDataRefs(Len(chunk.data), stmt.pending_exprs)
        /\ chunk' = [chunk EXCEPT !.diverging = RawDataDiverging(chunk.diverging),
                                  !.data = WriteData(chunk.data, stmt.data)]
    /\ UNCHANGED <<extra, next_label, next_attrs, labels, pc, srcDone, out, trace, ended>>

\* Instruction { name, size, arg, .. }
PullInstruction ==
    /\ CanPull
    /\ \E stmt \in InstructionStmts :
        /\ pulled' = Append(pulled, stmt)
        /\ IF ~stmt.ok
           THEN Panic
           ELSE /\ pending_exprs' = pending_exprs \o InstructionRefs(Len(chunk.data), stmt)
                /\ chunk' = [chunk EXCEPT
                      !.diverging = InstructionDiverging(chunk.diverging, stmt.div),
                      !.data = WriteData(chunk.data, InstructionBytes(stmt))]
                /\ UNCHANGED <<extra, next_label, next_attrs, labels, pc, srcDone,
                               out, trace, ended>>

\* Error(e) => panic!("Error occured")
PullError ==
    /\ CanPull
    /\ \E stmt \in ErrorStmts : pulled' = Append(pulled, stmt)
    /\ Panic

Next ==
    \/ Drain
    \/ Enter
    \/ EndOfStream
    \/ PullDefine
    \/ PullLabel
    \/ PullNegLabel
    \/ PullPosLabel
    \/ PullLocalLabel
    \/ PullRawData
    \/ PullInstruction
    \/ PullError

Spec == Init /\ [][Next]_vars

----------------------------------------------------------------------------
(* The statement stream read back from the history: the statements between  *)
(* consecutive top-level labels, and what they produce.                     *)

\* positions of the top-level labels among the first n statements pulled
RECURSIVE LabelPositions(_)
LabelPositions(n) ==
    IF n = 0 THEN <<>>
    ELSE IF pulled[n].t = "Label" THEN Append(LabelPositions(n - 1), n)
         ELSE LabelPositions(n - 1)

TopLabels == LabelPositions(Len(pulled))

\* the statements that belong to the k-th chunk (k = 1 is "*root")
Segment(k) ==
    LET first == IF k = 1 THEN 1 ELSE TopLabels[k - 1] + 1
        last == IF k <= Len(TopLabels) THEN TopLabels[k] - 1 ELSE Len(pulled)
    IN  SubSeq(pulled, first, last)

\* the name and the attributes the source gave the k-th chunk
SourceLabel(k) == IF k = 1 THEN "*root" ELSE pulled[TopLabels[k - 1]].name
SourceAttrs(k) == IF k = 1 THEN <<>> ELSE pulled[TopLabels[k - 1]].attrs

\* the bytes one statement contributes
StmtBytes(stmt) ==
    CASE stmt.t = "RawData" -> stmt.data
      [] stmt.t = "Instruction" -> InstructionBytes(stmt)
      [] OTHER -> <<>>

\* the fixups one statement queues when the chunk already holds len bytes
StmtRefs(stmt, len) ==
    CASE stmt.t = "RawData" -> RawDataRefs(len, stmt.pending_exprs)
      [] stmt.t = "Instruction" -> InstructionRefs(len, stmt)
      [] OTHER -> <<>>

\* what a run of statements produces, read in source order: its bytes, the
\* fixups it queues and the local labels it defines at their byte offsets
RECURSIVE SegScan(_)
SegScan(seg) ==
    IF seg = <<>> THEN [bytes |-> <<>>, refs |-> <<>>, labels |-> NoLabels]
    ELSE LET before == SegScan(Front(seg))
             stmt == Last(seg)
             len == Len(before.bytes)
         IN  [bytes |-> before.bytes \o StmtBytes(stmt),
              refs |-> before.refs \o StmtRefs(stmt, len),
              labels |-> IF stmt.t \in {"NegLabel", "PosLabel", "LocalLabel"}
                         THEN Insert(before.labels, stmt.id, len)
                         ELSE before.labels]

\* the number of bytes a run of statements produces
RECURSIVE SegLen(_)
SegLen(seg) == IF seg = <<>> THEN 0 ELSE SegLen(Front(seg)) + Len(StmtBytes(Last(seg)))

\* the Chunk units returned so far, in order
RECURSIVE ChunksOf(_)
ChunksOf(units) ==
    IF units = <<>> THEN <<>>
    ELSE IF Last(units).u = "Chunk" THEN Append(ChunksOf(Front(units)), Last(units))
         ELSE ChunksOf(Front(units))

Chunks == ChunksOf(out)

\* the labels of the Define units / Define statements of a sequence
RECURSIVE DefineLabels(_, _)
DefineLabels(s, isUnit) ==
    IF s = <<>> THEN <<>>
    ELSE IF (IF isUnit THEN Last(s).u = "Define" ELSE Last(s).t = "Define")
         THEN Append(DefineLabels(Front(s), isUnit), Last(s).label)
         ELSE DefineLabels(Front(s), isUnit)

IsPrefix(a, b) == Len(a) <= Len(b) /\ SubSeq(b, 1, Len(a)) = a

\* the last chunk has been returned
StreamEnded == next_label = <<>>

----------------------------------------------------------------------------
(* C1: the Chunk units come out labelled "*root", L1, ..., Ln in order, and *)
(* the chunk labelled Li holds exactly the bytes and fixups of the raw-data *)
(* and instruction statements between Li and the next top-level label (or   *)
(* the end of the stream), in source order, as the resolver leaves them; a  *)
(* label directly followed by another yields an empty chunk; once the       *)
(* stream has ended there are n+1 chunks.                                   *)
C1_ChunksMatchSegments ==
    /\ Len(Chunks) <= Len(TopLabels) + 1
    /\ StreamEnded => Len(Chunks) = Len(TopLabels) + 1
    /\ \A k \in 1..Len(Chunks) :
         LET seg == Segment(k)
             unit == Chunks[k]
             scan == SegScan(seg)
             m == merge_labels([DefaultChunk EXCEPT !.data = scan.bytes],
                               scan.labels, scan.refs)
         IN  /\ unit.label = SourceLabel(k)
             /\ unit.chunk.data = m.chunk.data
             /\ unit.chunk.pending_exprs = m.chunk.pending_exprs
             /\ (seg = <<>> => unit.chunk.data = <<>> /\ unit.chunk.pending_exprs = <<>>)

\* the stream Label A, Label B, RawData read to its end: three chunks, the
\* one named A empty (B follows A directly), the one named B holding the
\* raw bytes with their constant patched in
C1_Witness ==
    /\ StreamEnded
    /\ Len(Chunks) = 3
    /\ TopLabels = <<1, 2>>
    /\ Chunks[1].label = "*root"
    /\ Chunks[2].label = "A"
    /\ Chunks[2].chunk.data = <<>>
    /\ Chunks[2].chunk.pending_exprs = <<>>
    /\ Chunks[3].label = "B"
    /\ Chunks[3].chunk.data = <<9, 16, 42>>

----------------------------------------------------------------------------
(* C2: every emitted chunk, the last one included, carries the attribute    *)
(* list of the top-level label that names it ("*root" carries none) and its *)
(* bank pin is bank b exactly when that list holds a bank-pin attribute     *)
(* for b.                                                                   *)
C2_AttrsAndBankPin ==
    \A k \in 1..Len(Chunks) :
        /\ Chunks[k].chunk.attrs = SourceAttrs(k)
        /\ \A b \in 1..2 :
             (Chunks[k].chunk.bank_hint = <<b>>) <=>
                (\E i \in 1..Len(SourceAttrs(k)) : SourceAttrs(k)[i] = Bank(b))

----------------------------------------------------------------------------
(* C3: while the output queue is non-empty no statement is pulled from the  *)
(* source: a Define unit is returned before any further statement is read.  *)
C3_DrainBeforePull == [][Len(extra) > 0 => pulled' = pulled]_vars

----------------------------------------------------------------------------
(* C4: the Define units are returned in the order their statements were     *)
(* read: at every moment the Define units returned so far are the first     *)
(* Define statements of the source, in source order.                        *)
C4_DefinesInSourceOrder ==
    IsPrefix(DefineLabels(out, TRUE), DefineLabels(pulled, FALSE))

----------------------------------------------------------------------------
(* C5: once the source is exhausted and the last chunk has been emitted,    *)
(* no further unit is ever returned.                                        *)
C5_NothingAfterLastChunk == [][StreamEnded => out' = out]_vars

----------------------------------------------------------------------------
(* C6: no chunk is emitted holding a patch whose value did not fit its      *)
(* field: every constant the resolver patched fits the 1/2/3 bytes of its   *)
(* size and every relative displacement it patched fits the signed range    *)
(* of its width (an unfit value yields an error, not a chunk).              *)

\* c fits an unsigned field of w bytes
FitsUnsigned(c, w) == 0 <= c /\ c < Pow(256, w)

\* d fits a signed field of w bytes
FitsSigned(d, w) == -(Pow(256, w) \div 2) <= d /\ d < Pow(256, w) \div 2

\* the value a queued fixup patches fits its field (or it patches nothing)
PatchFits(r, lbls) ==
    LET e == Resolved(r, lbls)
    IN  /\ (e.root.k = "Constant" /\ e.size \in {"Byte", "Word", "Long"}) =>
               FitsUnsigned(e.root.v, Width(e.size))
        /\ (e.root.k = "LabelOffset" /\ e.size \in {"RelByte", "RelWord"}) =>
               FitsSigned(e.root.v - r.offset - 1, Width(e.size))

C6_NoTruncatedPatch ==
    \A k \in 1..Len(trace) :
        \A i \in 1..Len(trace[k].queued) :
            PatchFits(trace[k].queued[i], trace[k].labels)

----------------------------------------------------------------------------
(* C7: a backward local label defined at chunk offset k and referenced by a *)
(* later RelByte instruction of the same chunk is patched to a signed byte  *)
(* that depends only on k and on the offset u of the instruction.           *)

\* a byte read as a two's complement number
SignedByte(b) == IF b >= 128 THEN b - 256 ELSE b

\* seg[i] defines a backward label that the RelByte instruction seg[j]
\* references, and nothing after seg[i] redefines that identity
BackwardRelByte(seg, i, j) ==
    /\ i < j
    /\ seg[i].t = "NegLabel"
    /\ seg[j].t = "Instruction"
    /\ seg[j].ok
    /\ seg[j].expr.root = seg[i].id
    /\ seg[j].hint # "Implicit"
    /\ OperandSize(seg[j]) = "RelByte"
    /\ \A n \in (i + 1)..Len(seg) :
         seg[n].t \in {"NegLabel", "PosLabel", "LocalLabel"} => seg[n].id # seg[i].id

\* the byte offset at which seg[i] starts
OffsetOf(seg, i) == SegLen(SubSeq(seg, 1, i - 1))

\* the operand byte of the instruction seg[j] in the emitted chunk k
OperandByte(k, seg, j) == Chunks[k].chunk.data[OffsetOf(seg, j) + 2]

\* C7 as stated: the patched value is k - u - 1, u the instruction's offset
C7_BackwardRelBytePatch ==
    \A c \in 1..Len(Chunks) :
        LET seg == Segment(c)
        IN  \A i, j \in 1..Len(seg) :
              BackwardRelByte(seg, i, j) =>
                LET k == OffsetOf(seg, i)
                    u == OffsetOf(seg, j)
                IN  FitsSigned(k - u - 1, 1) =>
                       SignedByte(OperandByte(c, seg, j)) = k - u - 1

\* C7 amended: the patched value is k - u - 2, which is k - f - 1 for the
\* offset f = u + 1 of the operand byte (the opcode sits at u), whenever
\* that value lies in [-128,127]
C7_BackwardRelBytePatchAmended ==
    \A c \in 1..Len(Chunks) :
        LET seg == Segment(c)
        IN  \A i, j \in 1..Len(seg) :
              BackwardRelByte(seg, i, j) =>
                LET k == OffsetOf(seg, i)
                    u == OffsetOf(seg, j)
                IN  FitsSigned(k - u - 2, 1) =>
                       SignedByte(OperandByte(c, seg, j)) = k - u - 2

\* a chunk was emitted in which a backward label at offset 0 is referenced
\* by a RelByte instruction at offset 1, whose operand now reads -3
C7_Witness ==
    \E c \in 1..Len(Chunks) :
        LET seg == Segment(c)
        IN  \E i, j \in 1..Len(seg) :
              /\ BackwardRelByte(seg, i, j)
              /\ OffsetOf(seg, i) = 0
              /\ OffsetOf(seg, j) = 1
              /\ OperandByte(c, seg, j) = 253

----------------------------------------------------------------------------
(* C8: a fixup whose substituted, reduced expression is a constant c that   *)
(* fits its field is written little-endian at the fixup's offset in exactly *)
(* 1 (Byte), 2 (Word) or 3 (Long) bytes, 0x2A10 as Word giving 0x10 0x2A,   *)
(* and no byte outside that field changes.                                  *)

\* the number the w bytes after offset off spell, least significant first
RECURSIVE DecodeLE(_, _, _)
DecodeLE(data, off, w) ==
    IF w = 0 THEN 0
    ELSE DecodeLE(data, off, w - 1) + data[off + w] * Pow(256, w - 1)

FieldBytes(size) == CASE size = "Byte" -> 1 [] size = "Word" -> 2 [] size = "Long" -> 3

\* the i-th fixup of a finished chunk patches a constant that fits
ConstantFixup(t, i) ==
    LET e == Resolved(t.queued[i], t.labels)
    IN  /\ e.root.k = "Constant"
        /\ e.size \in {"Byte", "Word", "Long"}
        /\ FitsUnsigned(e.root.v, FieldBytes(e.size))

----------------------------------------------------------------------------
(* C9: the diverging flag of an emitted chunk is decided by the last        *)
(* flag-affecting statement of the chunk: false to begin with, true after   *)
(* RawData or an instruction that does not fall through, false after a      *)
(* forward anonymous label or a named local label; Define statements,       *)
(* backward anonymous labels and fallthrough instructions leave it alone.   *)

\* the flag as the last flag-affecting statement of the run decides it
RECURSIVE LastDecides(_)
LastDecides(seg) ==
    IF seg = <<>> THEN FALSE
    ELSE LET stmt == Last(seg)
         IN  CASE stmt.t = "RawData" -> TRUE
               [] stmt.t = "Instruction" /\ stmt.div -> TRUE
               [] stmt.t \in {"PosLabel", "LocalLabel"} -> FALSE
               [] OTHER -> LastDecides(Front(seg))

C9_DivergingByLastStatement ==
    \A k \in 1..Len(Chunks) : Chunks[k].chunk.diverging = LastDecides(Segment(k))

\* a chunk made of RawData then a LocalLabel was emitted with the flag clear
C9_Witness ==
    /\ Len(Chunks) >= 2
    /\ Len(Segment(1)) = 2
    /\ Segment(1)[1].t = "RawData"
    /\ Segment(1)[2].t = "LocalLabel"
    /\ ~Chunks[1].chunk.diverging

----------------------------------------------------------------------------
(* C10: every fixup queued for an instruction operand has same_bank = true, *)
(* every fixup queued for raw data has same_bank = false, and a fixup that  *)
(* is not resolved locally keeps its flag in the chunk's outgoing list.     *)

\* the same_bank flags the statements of a run ask for, in source order
RECURSIVE SegFlags(_)
SegFlags(seg) ==
    IF seg = <<>> THEN <<>>
    ELSE LET stmt == Last(seg)
         IN  SegFlags(Front(seg)) \o
               (CASE stmt.t = "RawData" -> [i \in 1..Len(stmt.pending_exprs) |-> FALSE]
                  [] stmt.t = "Instruction" /\ ~ConstOnly(stmt) -> <<TRUE>>
                  [] OTHER -> <<>>)

\* the kind of the statement whose bytes cover byte offset off of the run
RECURSIVE OriginAt(_, _)
OriginAt(seg, off) ==
    IF seg = <<>> THEN "none"
    ELSE IF StmtBytes(Last(seg)) # <<>> /\ off >= SegLen(Front(seg))
         THEN Last(seg).t
         ELSE OriginAt(Front(seg), off)

C10_SameBankByOrigin ==
    \A k \in 1..Len(Chunks) :
        LET seg == Segment(k)
            queued == trace[k].queued
            outgoing == Chunks[k].chunk.pending_exprs
        IN  /\ [i \in 1..Len(queued) |-> queued[i].same_bank] = SegFlags(seg)
            /\ \A i \in 1..Len(outgoing) :
                 outgoing[i].same_bank = (OriginAt(seg, outgoing[i].offset) = "Instruction")

\* a chunk was emitted whose outgoing list holds a raw-data fixup and an
\* instruction fixup that both refer to the unresolved symbol 9
C10_Witness ==
    \E k \in 1..Len(Chunks) :
        LET outgoing == Chunks[k].chunk.pending_exprs
        IN  /\ Len(outgoing) = 2
            /\ outgoing[1].expr.root = Label(9)
            /\ ~outgoing[1].same_bank
            /\ outgoing[2].expr.root = Add(Label(9), Constant(1))
            /\ outgoing[2].same_bank

----------------------------------------------------------------------------
(* C11: an Error statement of the source is surfaced as an Error unit and   *)
(* does not end the stream: once it has been read, an Error unit has been   *)
(* returned for it and the compiler is still able to serve requests.        *)

\* the Error units returned so far
ErrorUnits == {i \in 1..Len(out) : out[i].u = "Error"}

\* the Error statements read so far
ErrorsRead == {i \in 1..Len(pulled) : pulled[i].t = "Error"}

C11_ErrorSurfaced ==
    ErrorsRead # {} => (pc # "panic" /\ Cardinality(ErrorUnits) = Cardinality(ErrorsRead))

----------------------------------------------------------------------------
(* C12: a statement-level failure (the operand encoder rejecting the        *)
(* addressing mode, or the resolver meeting a relative size whose reduced   *)
(* root is a plain constant) is reported as an Error unit and never aborts  *)
(* compilation.                                                             *)

\* the instruction just read was rejected by AddressingMode::parse
ModeRejected ==
    /\ pulled # <<>>
    /\ Last(pulled).t = "Instruction"
    /\ ~Last(pulled).ok

\* the chunk being finished holds a relative fixup that reduces to a constant
RelativeConstant ==
    \E i \in 1..Len(pending_exprs) :
        LET e == Resolved(pending_exprs[i], labels)
        IN  e.root.k = "Constant" /\ e.size \in {"RelByte", "RelWord"}

C12_StatementFailureNotFatal ==
    (ModeRejected \/ RelativeConstant) => pc # "panic"

----------------------------------------------------------------------------
(* C13: a fixup whose substituted, reduced expression is empty is dropped   *)
(* (it is in no outgoing fixup list) and the resolver leaves every byte of  *)
(* the chunk at and after its offset as it was before the fixup was         *)
(* processed.                                                               *)

\* the i-th fixup of a finished chunk reduces to the empty expression
EmptyFixup(t, i) == Resolved(t.queued[i], t.labels).root.k = "Empty"

C13_EmptyFixupLeavesBytes ==
    \A k \in 1..Len(trace) :
        LET t == trace[k]
            outgoing == Chunks[k].chunk.pending_exprs
        IN  \A i \in 1..Len(t.queued) :
              EmptyFixup(t, i) =>
                LET before == MergeUpTo(t.pre, t.labels, t.queued, i - 1)
                    after == MergeUpTo(t.pre, t.labels, t.queued, i)
                IN  /\ Len(after.data) = Len(before.data)
                    /\ \A n \in (t.queued[i].offset + 1)..Len(before.data) :
                          after.data[n] = before.data[n]
                    /\ Len(after.linker) = Len(before.linker)
                    /\ \A j \in 1..Len(outgoing) :
                          outgoing[j].offset # t.queued[i].offset

\* a chunk was emitted whose raw byte 5 carried a fixup with an empty
\* expression: the byte is still 5 and nothing is handed to the linker
C13_Witness ==
    \E k \in 1..Len(trace) :
        /\ Len(trace[k].queued) = 1
        /\ EmptyFixup(trace[k], 1)
        /\ Chunks[k].chunk.data = <<5>>
        /\ Chunks[k].chunk.pending_exprs = <<>>

----------------------------------------------------------------------------
(* C15: the local label table is empty at the start of every chunk and      *)
(* holds only identities defined by label statements of the chunk being     *)
(* accumulated; a fixup that refers to a local label defined in another     *)
(* chunk is never given an offset, and a reference to a local label defined *)
(* anywhere in the same chunk is replaced by that label's byte offset.      *)

\* the chunk being accumulated is the one after the last top-level label
Accumulating == pc = "loop" /\ next_label # <<>>

\* what a leaf of a fixup must become, given the labels its chunk defines
ExpectedLeaf(n, defs) == IF n \in DOMAIN defs THEN LabelOffset(defs[n]) ELSE n

\* some outgoing fixup at this offset still names the identity n
StillNamed(outgoing, offset, n) ==
    \E j \in 1..Len(outgoing) :
        /\ outgoing[j].offset = offset
        /\ \E m \in 1..Len(Leaves(outgoing[j].expr)) : Leaves(outgoing[j].expr)[m] = n

C15_LabelsLocalToChunk ==
    /\ Accumulating => labels = SegScan(Segment(Len(TopLabels) + 1)).labels
    /\ \A k \in 1..Len(trace) :
         LET t == trace[k]
             defs == SegScan(Segment(k)).labels
             outgoing == Chunks[k].chunk.pending_exprs
         IN  /\ t.labels = defs
             /\ \A i \in 1..Len(t.queued) :
                  LET was == Leaves(t.queued[i].expr)
                      now == Leaves(Subst(t.queued[i].expr, t.labels))
                  IN  \A m \in 1..Len(was) :
                        /\ now[m] = ExpectedLeaf(was[m], defs)
                        /\ (was[m].k = "Label" /\ was[m] \notin DOMAIN defs) =>
                              StillNamed(outgoing, t.queued[i].offset, was[m])

\* the stream LocalLabel 3, Label A, instruction referring to 3: the chunk
\* named A hands the reference to the linker with the identity untouched
C15_Witness ==
    /\ Len(Chunks) = 2
    /\ Label(3) \in DOMAIN trace[1].labels
    /\ trace[2].labels = NoLabels
    /\ Len(Chunks[2].chunk.pending_exprs) = 1
    /\ Chunks[2].chunk.pending_exprs[1].expr.root = Label(3)

----------------------------------------------------------------------------
(* C16: for a fixup whose reduced root is a resolved chunk offset c, with   *)
(* size RelByte or RelWord, the signed little-endian value patched is c     *)
(* minus the offset of the first byte after the operand field: after its    *)
(* one byte for RelByte, after its two bytes for RelWord.                   *)

\* the w bytes after offset off read as a signed little-endian number
DecodeSignedLE(data, off, w) ==
    LET v == DecodeLE(data, off, w)
    IN  IF v >= Pow(256, w) \div 2 THEN v - Pow(256, w) ELSE v

\* the i-th fixup of a finished chunk is a relative reference to a local label
RelativeFixup(t, i) ==
    LET e == Resolved(t.queued[i], t.labels)
    IN  e.root.k = "LabelOffset" /\ e.size \in {"RelByte", "RelWord"}

C16_RelativeFromEndOfOperand ==
    \A k \in 1..Len(trace) :
        LET t == trace[k]
        IN  \A i \in 1..Len(t.queued) :
              RelativeFixup(t, i) =>
                LET r == t.queued[i]
                    e == Resolved(r, t.labels)
                    w == IF e.size = "RelByte" THEN 1 ELSE 2
                    after == MergeUpTo(t.pre, t.labels, t.queued, i).data
                IN  FitsSigned(e.root.v - (r.offset + w), w) =>
                       DecodeSignedLE(after, r.offset, w) = e.root.v - (r.offset + w)

----------------------------------------------------------------------------
----------------------------------------------------------------------------
(* C18: merge_labels partitions the queued fixups of a chunk.  A fixup is   *)
(* finished (patched, or dropped as empty) and then is in no outgoing list, *)
(* or it is in the chunk's outgoing list exactly once with its offset and   *)
(* same_bank flag unchanged; the outgoing list keeps the order of the       *)
(* queue; a fixup whose reduced root is a resolved offset with a size other *)
(* than RelByte/RelWord, or that still names an unresolved symbol, is       *)
(* always carried forward.                                                  *)

\* the resolver has nothing left to do for a fixup with this reduced form
Finished(e) ==
    \/ e.root.k \in {"Empty", "Constant"}
    \/ e.root.k = "LabelOffset" /\ e.size \in {"RelByte", "RelWord"}

\* the reduced forms the claim says are always carried forward
MustCarry(e) ==
    \/ e.root.k = "LabelOffset" /\ e.size \notin {"RelByte", "RelWord"}
    \/ \E i \in 1..Len(Leaves(e)) : Leaves(e)[i].k = "Label"

\* where a fixup sits and whether it is bank-bound
Place(r) == <<r.offset, r.same_bank>>

\* the places of the first n queued fixups that are not finished, in order
RECURSIVE UnfinishedPlaces(_, _)
UnfinishedPlaces(t, n) ==
    IF n = 0 THEN <<>>
    ELSE IF Finished(Resolved(t.queued[n], t.labels))
         THEN UnfinishedPlaces(t, n - 1)
         ELSE Append(UnfinishedPlaces(t, n - 1), Place(t.queued[n]))

C18_ResolverPartitions ==
    \A k \in 1..Len(trace) :
        LET t == trace[k]
            outgoing == Chunks[k].chunk.pending_exprs
        IN  /\ [j \in 1..Len(outgoing) |-> Place(outgoing[j])]
                  = UnfinishedPlaces(t, Len(t.queued))
            /\ \A i \in 1..Len(t.queued) :
                 MustCarry(Resolved(t.queued[i], t.labels)) =>
                    \E j \in 1..Len(outgoing) : Place(outgoing[j]) = Place(t.queued[i])

\* a chunk whose queue held a fixup that was finished between two that were
\* carried forward
C18_Witness ==
    \E k \in 1..Len(trace) :
        LET t == trace[k]
        IN  /\ Len(Chunks[k].chunk.pending_exprs) = 2
            /\ Len(t.queued) = 3
            /\ Finished(Resolved(t.queued[2], t.labels))

----------------------------------------------------------------------------
(* C19: an Instruction statement queues exactly one fixup, at the chunk's   *)
(* byte length before the instruction plus 1 and carrying the composed      *)
(* operand size, if and only if its operand expression has a leaf that is   *)
(* neither a constant nor empty and the mnemonic's size hint is not         *)
(* Implicit; otherwise it queues none.                                      *)

\* the operand needs a fixup: a symbolic leaf under a non-Implicit mnemonic
NeedsFixup(stmt) ==
    /\ \E i \in 1..Len(Leaves(stmt.expr)) :
          Leaves(stmt.expr)[i].k \notin {"Constant", "Empty"}
    /\ stmt.hint # "Implicit"

\* the mnemonic's hint narrowed by the expression's size, then the parser's
ComposedSize(stmt) ==
    LET a == IF stmt.expr.size = "Unspecified" THEN stmt.hint ELSE stmt.expr.size
    IN  IF stmt.psize = "Unspecified" THEN a ELSE stmt.psize

\* the fixups queued with same_bank set that point at operand offset off
OperandFixups(queued, off) ==
    {i \in 1..Len(queued) : queued[i].same_bank /\ queued[i].offset = off}

\* the number of instructions among the statements of a run
RECURSIVE InstructionCount(_)
InstructionCount(seg) ==
    IF seg = <<>> THEN 0
    ELSE InstructionCount(Front(seg)) + (IF Last(seg).t = "Instruction" THEN 1 ELSE 0)

\* the number of instructions of a run that need a fixup
RECURSIVE NeedsFixupCount(_)
NeedsFixupCount(seg) ==
    IF seg = <<>> THEN 0
    ELSE NeedsFixupCount(Front(seg))
           + (IF Last(seg).t = "Instruction" /\ NeedsFixup(Last(seg)) THEN 1 ELSE 0)

C19_InstructionFixup ==
    \A k \in 1..Len(trace) :
        LET seg == Segment(k)
            queued == trace[k].queued
        IN  /\ \A j \in 1..Len(seg) :
                 seg[j].t = "Instruction" =>
                    LET at == OperandFixups(queued, OffsetOf(seg, j) + 1)
                    IN  IF NeedsFixup(seg[j])
                        THEN /\ Cardinality(at) = 1
                             /\ \A i \in at : queued[i].expr.size = ComposedSize(seg[j])
                        ELSE at = {}
            /\ Cardinality({i \in 1..Len(queued) : queued[i].same_bank})
                  = NeedsFixupCount(seg)

\* a chunk of two instructions that name the same unresolved symbol: the one
\* with an Implicit mnemonic queued nothing, the other queued its fixup
C19_Witness ==
    \E k \in 1..Len(trace) :
        LET seg == Segment(k)
        IN  /\ InstructionCount(seg) = 2
            /\ NeedsFixupCount(seg) = 1
            /\ \E j \in 1..Len(seg) : seg[j].t = "Instruction" /\ seg[j].hint = "Implicit"
            /\ Len(trace[k].queued) = 1

----------------------------------------------------------------------------
(* C20: no Define is lost or duplicated.  Every Define statement read while *)
(* a chunk was being accumulated yields exactly one Define unit, returned   *)
(* after that chunk's Chunk unit and before the next Chunk unit (all of     *)
(* them once the stream has been pulled to its end), and it changes neither *)
(* the bytes, nor the fixups, nor the diverging flag of any chunk.          *)

\* positions of the Chunk units among the first n units returned
RECURSIVE ChunkPositions(_)
ChunkPositions(n) ==
    IF n = 0 THEN <<>>
    ELSE IF out[n].u = "Chunk" THEN Append(ChunkPositions(n - 1), n)
         ELSE ChunkPositions(n - 1)

\* the units returned after the k-th Chunk unit and before the next one, the
\* Chunk units being at the positions at
UnitsAfterChunk(at, k) ==
    SubSeq(out, at[k] + 1, IF k < Len(at) THEN at[k + 1] - 1 ELSE Len(out))

\* how many elements of s equal x
Count(s, x) == Cardinality({i \in 1..Len(s) : s[i] = x})

\* a run of statements with its Define statements taken out
RECURSIVE WithoutDefines(_)
WithoutDefines(seg) ==
    IF seg = <<>> THEN <<>>
    ELSE IF Last(seg).t = "Define" THEN WithoutDefines(Front(seg))
         ELSE Append(WithoutDefines(Front(seg)), Last(seg))

C20_DefinesKeptWithChunk ==
    LET at == ChunkPositions(Len(out))
    IN  /\ out # <<>> => out[1].u = "Chunk"
        /\ \A k \in 1..Len(at) :
             LET seg == Segment(k)
                 gap == UnitsAfterChunk(at, k)
                 kept == WithoutDefines(seg)
                 plain == SegScan(kept)
                 closed == k < Len(at) \/ ended
             IN  /\ \A d \in DefineStmts :
                      LET read == Count(seg, d)
                          returned == Count(gap, DefineUnit(d.label, d.expr))
                      IN  /\ returned <= read
                          /\ closed => returned = read
                 /\ trace[k].pre = plain.bytes
                 /\ trace[k].queued = plain.refs
                 /\ out[at[k]].chunk.diverging = LastDecides(kept)

\* the stream Define d1, Define d2, RawData pulled to its end: both Define
\* units came out after the "*root" chunk, which holds the raw bytes alone
C20_Witness ==
    /\ ended
    /\ Len(Chunks) = 1
    /\ Len(UnitsAfterChunk(ChunkPositions(Len(out)), 1)) = 2
    /\ Count(Segment(1), CHOOSE d \in DefineStmts : d.label = "d1") = 1
    /\ Count(Segment(1), CHOOSE d \in DefineStmts : d.label = "d2") = 1
    /\ Chunks[1].chunk.data # <<>>

====
